---- MODULE Spec2Model ----
(***************************************************************************)
(* State-machine model of the App component of frontend/src/App.jsx:       *)
(* file selection, microphone recording, upload to the backend, and the    *)
(* note sequencer (playAllNotes / playNote / debounced index update).      *)
(*                                                                         *)
(* Time is counted in milliseconds.  A note's duration field holds         *)
(* thousandths of a second, so `duration * 1000` ms of the source is the   *)
(* same number of milliseconds.                                            *)
(***************************************************************************)
EXTENDS Integers, Sequences, FiniteSets

VARIABLES
    isRecording,        \* useState(false)            App.jsx:59
    audioBlob,          \* useState(null)             App.jsx:60
    transcribedText,    \* useState('')               App.jsx:61
    musicalNotes,       \* useState([])               App.jsx:62
    isProcessing,       \* useState(false)            App.jsx:63
    error,              \* useState(null)             App.jsx:64
    message,            \* useState(null)             App.jsx:65
    isPlaying,          \* useState(false)            App.jsx:66
    currentNoteIndex,   \* useState(-1)               App.jsx:67
    fileName,           \* useState('')               App.jsx:68
    mediaRecorderRef,   \* useRef(null)               App.jsx:69
    audioContextRef,    \* useRef(null)               App.jsx:71
    timers,             \* pending setTimeout callbacks, in registration order
    oscillators,        \* oscillators started and not yet stopped (ms left, frequency)
    micRequests,        \* getUserMedia promises not yet settled
    onstopPending,      \* MediaRecorder.stop() called, onstop not yet run
    requests,           \* fetch() calls whose response has not arrived
    contextsCreated,    \* number of AudioContext objects constructed so far
    synthLog,           \* indices passed to playNote by the pass in progress
    highlighted,        \* indices currentNoteIndex has taken during the pass in progress
    unplayed,           \* notes of the latest pass not yet passed to playNote
    lastPlayCall        \* what the most recent playAllNotes call did

vars == << isRecording, audioBlob, transcribedText, musicalNotes, isProcessing,
           error, message, isPlaying, currentNoteIndex, fileName,
           mediaRecorderRef, audioContextRef, timers, oscillators, micRequests,
           onstopPending, requests, contextsCreated, synthLog, highlighted,
           unplayed, lastPlayCall >>

uiVars == << isRecording, audioBlob, transcribedText, musicalNotes, isProcessing,
             error, message, fileName, mediaRecorderRef, micRequests,
             onstopPending, requests >>

playVars == << isPlaying, currentNoteIndex, audioContextRef, timers, oscillators,
               contextsCreated, synthLog, highlighted, unplayed >>

----------------------------------------------------------------------------
(* Bounds of the model *)

MaxNotes == 2          \* longest note sequence a response carries
MaxMicRequests == 1    \* getUserMedia requests pending at once
MaxOctave == 8         \* highest octave of the pitch inputs

----------------------------------------------------------------------------
(* Constants of the program *)

NULL == "null"

\* Base frequencies for middle octave (4), in hundredths of a hertz.
NOTE_FREQUENCIES ==
    [n \in {"C", "C#", "D", "D#", "E", "F", "F#", "G", "G#", "A", "A#", "B"} |->
        CASE n = "C"  -> 26163
          [] n = "C#" -> 27718
          [] n = "D"  -> 29366
          [] n = "D#" -> 31113
          [] n = "E"  -> 32963
          [] n = "F"  -> 34923
          [] n = "F#" -> 36999
          [] n = "G"  -> 39200
          [] n = "G#" -> 41530
          [] n = "A"  -> 44000
          [] n = "A#" -> 46616
          [] n = "B"  -> 49388]

acceptedFileTypes ==
    {"audio/wav", "audio/mp3", "audio/mpeg", "audio/ogg", "audio/webm", "audio/x-m4a"}

MaxFileSize == 10 * 1024 * 1024

DebounceWait == 50

----------------------------------------------------------------------------
(* Inputs *)

\* Note events the backend may send: a note shorter than the debounce wait, a
\* longer one, and one whose octave makes the frequency overflow.
NoteEvents ==
    { [note |-> "C", octave |-> 4, duration |-> 30],
      [note |-> "E", octave |-> 4, duration |-> 60],
      [note |-> "G", octave |-> 2000, duration |-> 60] }

RECURSIVE SeqsUpTo(_, _)
SeqsUpTo(S, n) ==
    IF n = 0 THEN {<<>>}
    ELSE LET shorter == SeqsUpTo(S, n - 1)
         IN  shorter \cup {Append(s, x) : s \in {t \in shorter : Len(t) = n - 1}, x \in S}

\* The sequences a response carries: up to MaxNotes repetitions of one event.
NoteSequences ==
    {s \in SeqsUpTo(NoteEvents, MaxNotes) : \A i, j \in 1..Len(s) : s[i] = s[j]}

Files ==
    { [name |-> "a.wav", type |-> "audio/wav", size |-> MaxFileSize],
      [name |-> "b.wav", type |-> "audio/wav", size |-> MaxFileSize + 1],
      [name |-> "c.txt", type |-> "text/plain", size |-> 1] }

\* null / undefined where a File or Blob is expected
NoBlob == [name |-> "", type |-> "null", size |-> 0]

RecordedBlob == [name |-> "", type |-> "audio/wav", size |-> 1]

\* The notes field of a response: absent ({}), or holding a sequence.
ResponseNotes == {{}} \cup {{s} : s \in NoteSequences}

Texts == {"la"}

\* Inputs of the pitch resolution: every pitch class, a name the table lacks and
\* a name every object inherits, at every octave up to MaxOctave; and the name
\* the table lacks at an octave far out of range.
Octaves == 0..MaxOctave

NoteNames == DOMAIN NOTE_FREQUENCIES \cup {"H", "constructor"}

PitchEvents ==
    {[note |-> n, octave |-> o, duration |-> 60] : n \in NoteNames, o \in Octaves}
    \cup {[note |-> "H", octave |-> 2000, duration |-> 60]}

\* One such event alone, or followed by a C4.
PitchSequences ==
    {<<n>> : n \in PitchEvents}
    \cup {<<n, [note |-> "C", octave |-> 4, duration |-> 60]>> : n \in PitchEvents}

Messages == {NULL, "info"}

----------------------------------------------------------------------------
(* Timers: setTimeout / clearTimeout *)

DebounceTimer(index) ==
    [kind |-> "debounce", left |-> DebounceWait, arg |-> index, notes |-> <<>>]

\* setTimeout(resolve, duration * 1000): milliseconds until the completion signal.
CompletionDelay(duration) == duration

\* oscillator.stop(audioContext.currentTime + duration): milliseconds of sound.
SoundingTime(duration) == duration

\* The continuation of playAllNotes suspended in `await playNote(...)` at index i
\* (a 0-based index into notes), resumed by the timer playNote sets.
NoteTimer(notes, i) ==
    [kind |-> "note", left |-> CompletionDelay(notes[i + 1].duration),
     arg |-> i, notes |-> notes]

RECURSIVE Without(_, _)
Without(tm, kind) ==
    IF tm = <<>> THEN <<>>
    ELSE IF Head(tm).kind = kind THEN Without(Tail(tm), kind)
         ELSE <<Head(tm)>> \o Without(Tail(tm), kind)

RemoveAt(s, k) == SubSeq(s, 1, k - 1) \o SubSeq(s, k + 1, Len(s))

\* debounce(func, wait): clear the pending timeout, if any, and set a new one.
debounce(tm, index) == Append(Without(tm, "debounce"), DebounceTimer(index))

debouncedSetCurrentNote(tm, index) == debounce(tm, index)

ActivePasses == Cardinality({k \in 1..Len(timers) : timers[k].kind = "note"})

----------------------------------------------------------------------------
Init ==
    /\ isRecording = FALSE
    /\ audioBlob = NoBlob
    /\ transcribedText = ""
    /\ musicalNotes = <<>>
    /\ isProcessing = FALSE
    /\ error = NULL
    /\ message = NULL
    /\ isPlaying = FALSE
    /\ currentNoteIndex = -1
    /\ fileName = ""
    /\ mediaRecorderRef = NULL
    /\ audioContextRef = NULL
    /\ timers = <<>>
    /\ oscillators = <<>>
    /\ micRequests = 0
    /\ onstopPending = FALSE
    /\ requests = <<>>
    /\ contextsCreated = 0
    /\ synthLog = <<>>
    /\ highlighted = {}
    /\ unplayed = 0
    /\ lastPlayCall = "none"

----------------------------------------------------------------------------
(* Pitch resolution and synthesis *)

\* A frequency value: m * 2^e hundredths of a hertz, or NaN.
Finite(m, e) == [nan |-> FALSE, m |-> m, e |-> e]

NaN == [nan |-> TRUE, m |-> 0, e |-> 0]

\* `return 440`
Fallback == Finite(44000, 0)

\* NOTE_FREQUENCIES is an object literal: a lookup by a name that is not one of
\* its own keys finds what Object.prototype has under that name, or undefined.
ObjectPrototypeNames ==
    {"constructor", "toString", "valueOf", "hasOwnProperty", "isPrototypeOf",
     "propertyIsEnumerable", "toLocaleString", "__proto__"}

\* `!baseFreq`: the lookup found nothing (an inherited function or object is
\* not falsy).
BaseFreqMissing(note) ==
    note \notin DOMAIN NOTE_FREQUENCIES /\ note \notin ObjectPrototypeNames

\* Mutant: the octave is counted from 3.
getFrequencyWithOctave_FromOctave3(note, octave) ==
    IF BaseFreqMissing(note) THEN Fallback
    ELSE IF note \in ObjectPrototypeNames THEN NaN
    ELSE Finite(NOTE_FREQUENCIES[note], octave - 3)

\* getFrequencyWithOctave: baseFreq * Math.pow(2, octave - 4).  Scaling a double
\* by a power of two is exact, so the product is kept as the pair (m, e); a
\* baseFreq that is no number makes the product NaN.
getFrequencyWithOctave(note, octave) ==
    IF BaseFreqMissing(note) THEN Fallback
    ELSE IF note \in ObjectPrototypeNames THEN NaN
    ELSE Finite(NOTE_FREQUENCIES[note], octave - 4)

RECURSIVE Log2Floor(_)
Log2Floor(n) == IF n < 2 THEN 0 ELSE 1 + Log2Floor(n \div 2)

\* oscillator.frequency.setValueAtTime(frequency, ...) takes a 32-bit float:
\* NaN, or a value of magnitude 2^FloatMaxExp or more (Infinity included), is a
\* TypeError.
FloatMaxExp == 128

SynthesisThrows(n) ==
    LET f == getFrequencyWithOctave(n.note, n.octave)
    IN  f.nan \/ Log2Floor(f.m \div 100) + f.e >= FloatMaxExp

\* Mutant: a context is constructed on every call.
InitAudioContextCreates_Always == TRUE

\* initAudioContext: `if (!audioContextRef.current)` a context is constructed.
InitAudioContextCreates == audioContextRef = NULL

initAudioContext ==
    /\ audioContextRef' = IF InitAudioContextCreates THEN "context" ELSE audioContextRef
    /\ contextsCreated' = IF InitAudioContextCreates THEN contextsCreated + 1
                                                      ELSE contextsCreated

\* playNote(note, octave, duration), called for index i of `notes` with tm the
\* pending timers.  A throw rejects the promise playAllNotes awaits, and nothing
\* in playAllNotes catches it: the pass is abandoned where it stands.
playNote(notes, i, tm) ==
    /\ initAudioContext
    /\ IF SynthesisThrows(notes[i + 1])
       THEN /\ timers' = tm
            /\ oscillators' = oscillators
       ELSE /\ timers' = Append(tm, NoteTimer(notes, i))
            /\ oscillators' = Append(oscillators,
                    [arg |-> i, left |-> SoundingTime(notes[i + 1].duration),
                     freq |-> getFrequencyWithOctave(notes[i + 1].note,
                                                     notes[i + 1].octave)])

----------------------------------------------------------------------------
(* The sequencer *)

\* Mutant: the guard without its isPlaying test.
playAllNotesReturns_NoPlayingTest == Len(musicalNotes) = 0

\* Mutant: the guard without its length test.
playAllNotesReturns_NoLengthTest == isPlaying

\* `if (isPlaying || !musicalNotes.length) return`
playAllNotesReturns == isPlaying \/ Len(musicalNotes) = 0

\* Mutant: the index is not reset when the loop is over.
EndOfPass_NoReset(tm) == tm

\* `debouncedSetCurrentNote(-1)` after the loop
EndOfPass(tm) == debouncedSetCurrentNote(tm, -1)

\* i++ of the for loop
NextIndex(i) == i + 1

\* The for loop of playAllNotes from index i up to its next await, or to its end:
\* notes is the musicalNotes the callback closed over, tm the pending timers,
\* playing the value of isPlaying so far; log (the playNote calls so far), shown
\* (the indices highlighted so far) and rest (the notes not yet played) observe
\* the pass.  The pass is over when the loop ends or playNote throws; synthLog
\* and highlighted describe the pass in progress only.
LoopFrom(notes, i, tm, playing, log, shown, rest) ==
    IF i < Len(notes)
    THEN /\ playNote(notes, i, debouncedSetCurrentNote(tm, i))
         /\ synthLog' = IF SynthesisThrows(notes[i + 1]) THEN <<>> ELSE Append(log, i)
         /\ highlighted' = IF SynthesisThrows(notes[i + 1]) THEN {} ELSE shown
         /\ unplayed' = rest - 1
         /\ isPlaying' = playing
    ELSE /\ isPlaying' = FALSE
         /\ timers' = EndOfPass(tm)
         /\ synthLog' = <<>>
         /\ highlighted' = {}
         /\ unplayed' = rest
         /\ UNCHANGED << oscillators, audioContextRef, contextsCreated >>

\* One call of playAllNotes, up to its first await.
playAllNotes ==
    IF playAllNotesReturns
    THEN /\ lastPlayCall' = IF isPlaying THEN "ignored_playing" ELSE "ignored_empty"
         /\ UNCHANGED << playVars, uiVars >>
    ELSE /\ LoopFrom(musicalNotes, 0, timers, TRUE, <<>>, {}, Len(musicalNotes))
         /\ lastPlayCall' = "started"
         /\ UNCHANGED << currentNoteIndex, uiVars >>

\* The Play Notes button is rendered, and is not disabled.
PlayButtonEnabled ==
    /\ Len(musicalNotes) > 0 /\ ~isRecording /\ ~isProcessing
    /\ ~isPlaying

ClickPlay == PlayButtonEnabled /\ playAllNotes

\* playAllNotes invoked whatever the button shows.
CallPlayAllNotes == playAllNotes

----------------------------------------------------------------------------
(* Time and timer callbacks *)

Expired(k) == timers[k].left = 0

\* Timers run in the order of their deadlines, and of registration among equals.
FirstExpired(k) == Expired(k) /\ \A j \in 1..(k - 1) : ~Expired(j)

MinLeft ==
    LET S == {timers[k].left : k \in 1..Len(timers)}
             \cup {oscillators[k].left : k \in 1..Len(oscillators)}
    IN  CHOOSE m \in S : \A x \in S : m <= x

Elapse(s, d) == [k \in 1..Len(s) |-> [s[k] EXCEPT !.left = @ - d]]

StillSounding(o) == o.left > 0

\* No callback is due: time passes up to the next deadline.  Handlers run at any
\* point in between.
Tick ==
    /\ Len(timers) + Len(oscillators) > 0
    /\ MinLeft > 0
    /\ timers' = Elapse(timers, MinLeft)
    /\ oscillators' = SelectSeq(Elapse(oscillators, MinLeft), StillSounding)
    /\ UNCHANGED << uiVars, isPlaying, currentNoteIndex, audioContextRef,
                    contextsCreated, synthLog, highlighted, unplayed, lastPlayCall >>

\* The debounced callback: timeout = null; setCurrentNoteIndex(index).
DebounceFires ==
    \E k \in 1..Len(timers) :
       /\ FirstExpired(k)
       /\ timers[k].kind = "debounce"
       /\ currentNoteIndex' = timers[k].arg
       /\ highlighted' = IF ActivePasses > 0 /\ timers[k].arg >= 0
                         THEN highlighted \cup {timers[k].arg}
                         ELSE highlighted
       /\ timers' = RemoveAt(timers, k)
       /\ UNCHANGED << uiVars, isPlaying, audioContextRef, oscillators,
                       contextsCreated, synthLog, unplayed, lastPlayCall >>

\* The promise of playNote resolves: playAllNotes resumes after its await.
NoteCompletes ==
    \E k \in 1..Len(timers) :
       /\ FirstExpired(k)
       /\ timers[k].kind = "note"
       /\ LoopFrom(timers[k].notes, NextIndex(timers[k].arg), RemoveAt(timers, k),
                   isPlaying, synthLog, highlighted, unplayed)
       /\ UNCHANGED << uiVars, currentNoteIndex, lastPlayCall >>

----------------------------------------------------------------------------
(* File selection *)

\* The Upload Audio File button: disabled={isProcessing || isRecording}
UploadButtonEnabled == ~(isProcessing \/ isRecording)

\* Mutant: a file of exactly the maximum size is refused.
FileRejected_AtLimit(file) ==
    IF file.type \notin acceptedFileTypes THEN "Invalid file type"
    ELSE IF file.size >= MaxFileSize THEN "File is too large"
    ELSE NULL

FileRejected(file) ==
    IF file.type \notin acceptedFileTypes THEN "Invalid file type"
    ELSE IF file.size > MaxFileSize THEN "File is too large"
    ELSE NULL

handleFileUpload(file) ==
    IF file = NoBlob
    THEN UNCHANGED vars
    ELSE IF FileRejected(file) # NULL
    THEN /\ error' = FileRejected(file)
         /\ UNCHANGED << isRecording, audioBlob, transcribedText, musicalNotes,
                         isProcessing, message, fileName, mediaRecorderRef,
                         micRequests, onstopPending, requests, playVars, lastPlayCall >>
    ELSE /\ fileName' = file.name
         /\ audioBlob' = file
         /\ error' = NULL
         /\ message' = NULL
         /\ transcribedText' = ""
         /\ musicalNotes' = <<>>
         /\ currentNoteIndex' = -1
         /\ UNCHANGED << isRecording, isProcessing, mediaRecorderRef, micRequests,
                         onstopPending, requests, isPlaying, audioContextRef, timers,
                         oscillators, contextsCreated, synthLog, highlighted,
                         unplayed, lastPlayCall >>

SelectFile == UploadButtonEnabled /\ \E file \in Files \cup {NoBlob} : handleFileUpload(file)

----------------------------------------------------------------------------
(* Recording *)

\* The Start Recording button: rendered when !isRecording, disabled={isProcessing}
StartButtonEnabled == ~isRecording /\ ~isProcessing

\* startRecording up to `await navigator.mediaDevices.getUserMedia(...)`
startRecording ==
    /\ error' = NULL
    /\ message' = NULL
    /\ micRequests' = micRequests + 1
    /\ UNCHANGED << isRecording, audioBlob, transcribedText, musicalNotes,
                    isProcessing, fileName, mediaRecorderRef, onstopPending,
                    requests, playVars, lastPlayCall >>

ClickStartRecording ==
    /\ StartButtonEnabled
    /\ micRequests < MaxMicRequests
    /\ startRecording

\* getUserMedia resolves: the rest of the try block of startRecording
MicGranted ==
    /\ micRequests > 0
    /\ micRequests' = micRequests - 1
    /\ mediaRecorderRef' = "recorder"
    /\ isRecording' = TRUE
    /\ transcribedText' = ""
    /\ musicalNotes' = <<>>
    /\ currentNoteIndex' = -1
    /\ UNCHANGED << audioBlob, isProcessing, error, message, fileName, onstopPending,
                    requests, isPlaying, audioContextRef, timers, oscillators,
                    contextsCreated, synthLog, highlighted, unplayed, lastPlayCall >>

\* getUserMedia rejects: the catch block of startRecording
MicDenied ==
    /\ micRequests > 0
    /\ micRequests' = micRequests - 1
    /\ error' = "Error accessing microphone"
    /\ UNCHANGED << isRecording, audioBlob, transcribedText, musicalNotes,
                    isProcessing, message, fileName, mediaRecorderRef, onstopPending,
                    requests, playVars, lastPlayCall >>

\* The Stop Recording button is rendered when isRecording.
stopRecording ==
    IF mediaRecorderRef # NULL /\ isRecording
    THEN /\ onstopPending' = TRUE
         /\ isRecording' = FALSE
         /\ UNCHANGED << audioBlob, transcribedText, musicalNotes, isProcessing,
                         error, message, fileName, mediaRecorderRef, micRequests,
                         requests, playVars, lastPlayCall >>
    ELSE UNCHANGED vars

ClickStopRecording == isRecording /\ stopRecording

\* mediaRecorderRef.current.onstop
RecorderOnStop ==
    /\ onstopPending
    /\ onstopPending' = FALSE
    /\ audioBlob' = RecordedBlob
    /\ UNCHANGED << isRecording, transcribedText, musicalNotes, isProcessing, error,
                    message, fileName, mediaRecorderRef, micRequests, requests,
                    playVars, lastPlayCall >>

----------------------------------------------------------------------------
(* Upload *)

\* The Process Audio button: rendered when audioBlob && !isRecording,
\* disabled={isProcessing}
ProcessButtonEnabled == audioBlob # NoBlob /\ ~isRecording /\ ~isProcessing

\* uploadAudio up to `await fetch(...)`
uploadAudio ==
    IF audioBlob = NoBlob
    THEN UNCHANGED vars
    ELSE /\ isProcessing' = TRUE
         /\ error' = NULL
         /\ requests' = Append(requests,
                [file |-> audioBlob,
                 name |-> IF fileName # "" THEN fileName ELSE "recording.wav"])
         /\ UNCHANGED << isRecording, audioBlob, transcribedText, musicalNotes,
                         message, fileName, mediaRecorderRef, micRequests,
                         onstopPending, playVars, lastPlayCall >>

ClickProcessAudio == ProcessButtonEnabled /\ uploadAudio

\* Mutant: the notes of the response are added to the ones held.
NotesAfterSuccess_Appended(held, field) ==
    IF field = {} THEN held ELSE held \o (CHOOSE s \in field : TRUE)

\* `setMusicalNotes(data.notes || [])`
NotesAfterSuccess(held, field) ==
    IF field = {} THEN <<>> ELSE CHOOSE s \in field : TRUE

\* Mutant: isProcessing is cleared at the end of the try block, not in finally.
ProcessingAfterSettle_InTry(outcome) == outcome \in {"http_error", "exception"}

\* `finally { setIsProcessing(false) }`
ProcessingAfterSettle(outcome) == FALSE

\* Mutant: the message of the response is shown as it is.
FailureMessage_NoDefault(msg) == msg

\* `data.message || 'An error occurred while processing the audio'`
FailureMessage(msg) ==
    IF msg # NULL THEN msg ELSE "An error occurred while processing the audio"

\* The rest of uploadAudio, once fetch settles.  outcome: an OK response with
\* status 'success', an OK response with another status, a response that is
\* not OK, or a rejected fetch / unparsable body.
UploadSettles(outcome, text, notes, msg) ==
    /\ requests # <<>>
    /\ requests' = Tail(requests)
    /\ isProcessing' = ProcessingAfterSettle(outcome)
    /\ CASE outcome = "success" ->
              /\ transcribedText' = text
              /\ musicalNotes' = NotesAfterSuccess(musicalNotes, notes)
              /\ message' = msg
              /\ UNCHANGED error
         [] outcome = "failure" ->
              /\ error' = FailureMessage(msg)
              /\ UNCHANGED << transcribedText, musicalNotes, message >>
         [] OTHER ->
              /\ error' = "Error processing audio"
              /\ UNCHANGED << transcribedText, musicalNotes, message >>
    /\ UNCHANGED << isRecording, audioBlob, fileName, mediaRecorderRef, micRequests,
                    onstopPending, playVars, lastPlayCall >>

\* A response that is not a success carries no text or notes the code reads.
UploadResponse ==
    \/ \E text \in Texts, notes \in ResponseNotes, msg \in Messages :
          UploadSettles("success", text, notes, msg)
    \/ \E msg \in Messages : UploadSettles("failure", "", {}, msg)
    \/ \E outcome \in {"http_error", "exception"} :
          UploadSettles(outcome, "", {}, NULL)

----------------------------------------------------------------------------
(* Specifications *)

Next ==
    \/ SelectFile
    \/ ClickStartRecording
    \/ MicGranted
    \/ MicDenied
    \/ ClickStopRecording
    \/ RecorderOnStop
    \/ ClickProcessAudio
    \/ UploadResponse
    \/ ClickPlay
    \/ Tick
    \/ DebounceFires
    \/ NoteCompletes

\* The component driven through its buttons.
Spec == Init /\ [][Next]_vars

\* The same, with playAllNotes also called in states where its button is
\* hidden or disabled.
NextCall == Next \/ CallPlayAllNotes

SpecCall == Init /\ [][NextCall]_vars

\* Time passes and due callbacks run.
TimerStep == Tick \/ DebounceFires \/ NoteCompletes

\* Every timer that is set eventually fires, unless it is cleared.
FairSpec == Spec /\ WF_vars(TimerStep)

\* Every fetch settles: its promise is resolved or rejected.
FairUploadSpec == Spec /\ WF_vars(UploadResponse)

\* The component after a file was selected and processed, the response
\* carrying `notes`.
Loaded(file, text, notes) ==
    /\ isRecording = FALSE
    /\ audioBlob = file
    /\ transcribedText = text
    /\ musicalNotes = notes
    /\ isProcessing = FALSE
    /\ error = NULL
    /\ message = NULL
    /\ isPlaying = FALSE
    /\ currentNoteIndex = -1
    /\ fileName = file.name
    /\ mediaRecorderRef = NULL
    /\ audioContextRef = NULL
    /\ timers = <<>>
    /\ oscillators = <<>>
    /\ micRequests = 0
    /\ onstopPending = FALSE
    /\ requests = <<>>
    /\ contextsCreated = 0
    /\ synthLog = <<>>
    /\ highlighted = {}
    /\ unplayed = 0
    /\ lastPlayCall = "none"

PitchInit ==
    \E file \in {f \in Files : FileRejected(f) = NULL}, text \in Texts,
       notes \in PitchSequences : Loaded(file, text, notes)

PitchNext == ClickPlay \/ Tick \/ DebounceFires \/ NoteCompletes

\* Playback of the pitch inputs: playNote applies getFrequencyWithOctave to
\* every event of the loaded sequence.
PitchSpec == PitchInit /\ [][PitchNext]_vars

----------------------------------------------------------------------------
(* Claims *)

HandlerStep ==
    \/ SelectFile
    \/ ClickStartRecording \/ MicGranted \/ MicDenied
    \/ ClickStopRecording \/ RecorderOnStop
    \/ ClickProcessAudio \/ UploadResponse

Indices(n) == [j \in 1..n |-> j - 1]

\* C1: at most one playAllNotes loop is in progress in any reachable state, and
\* a playAllNotes call made while a loop is in progress changes nothing of the
\* playback state, sets no timer and starts no oscillator.
C1_OnePassAtATime ==
    /\ [](ActivePasses <= 1)
    /\ [][(ActivePasses > 0 /\ playAllNotes) => UNCHANGED << playVars, uiVars >>]_vars

\* A call was refused while a pass was, and still is, in progress.
C1_Witness == lastPlayCall = "ignored_playing" /\ ActivePasses = 1

\* C2: currentNoteIndex is -1 or an index of the sequence held in musicalNotes.
C2_IndexInBounds ==
    \/ currentNoteIndex = -1
    \/ (0 <= currentNoteIndex /\ currentNoteIndex < Len(musicalNotes))

\* C3: a pass calls playNote once for each index 0, 1, ..., n-1 in order, one
\* at a time.  While it waits for note i the calls so far are exactly
\* 0, 1, ..., i; at most one oscillator sounds, and it is the one of the note
\* waited for; and when no pass is waiting for a note, none has notes left
\* for which playNote was not called.
C3_EveryIndexInOrder ==
    /\ \A k \in 1..Len(timers) :
          timers[k].kind = "note" => synthLog = Indices(timers[k].arg + 1)
    /\ Len(oscillators) <= 1
    /\ \A o \in 1..Len(oscillators) :
          \E k \in 1..Len(timers) :
              timers[k].kind = "note" /\ timers[k].arg = oscillators[o].arg
    /\ ActivePasses = 0 => unplayed = 0

\* C4: when the completion signal of note i is about to resume the loop,
\* currentNoteIndex has taken the value i during the pass.
C4_HighlightBeforeAdvance ==
    \A k \in 1..Len(timers) :
        (timers[k].kind = "note" /\ FirstExpired(k)) => timers[k].arg \in highlighted

\* C5: a pass that has started returns to isPlaying = false.
C5_PassTerminates == isPlaying ~> ~isPlaying

C7_IdleImpliesNone == ~isPlaying => currentNoteIndex = -1

\* C8: a step of handleFileUpload, startRecording, stopRecording or uploadAudio
\* (their callbacks included) taken while a pass is in progress changes neither
\* isPlaying nor currentNoteIndex.
C8_OnlySequencerWrites ==
    [][(ActivePasses > 0 /\ HandlerStep) => UNCHANGED << isPlaying, currentNoteIndex >>]_vars

\* C9: a playAllNotes call with musicalNotes empty changes nothing: isPlaying
\* and currentNoteIndex stay, no timer is set, playNote is not called.
C9_EmptyIsNoop ==
    [][(Len(musicalNotes) = 0 /\ playAllNotes) => UNCHANGED << playVars, uiVars >>]_vars

\* playAllNotes was called with no notes and no pass in progress.
C9_Witness == lastPlayCall = "ignored_empty" /\ musicalNotes = <<>> /\ ~isPlaying

\* C10: at most one AudioContext is ever constructed, and it is the one the
\* ref holds.
C10_OneContext ==
    /\ contextsCreated <= 1
    /\ (contextsCreated = 1) = (audioContextRef # NULL)

\* A second playNote has run on the context the first one made.
C10_Witness == contextsCreated = 1 /\ Len(synthLog) = 2

\* The note event whose oscillator is the k-th one sounding: the one the loop
\* that started it is waiting for.
Sounding(k) ==
    LET t == CHOOSE j \in 1..Len(timers) :
                 timers[j].kind = "note" /\ timers[j].arg = oscillators[k].arg
    IN  timers[t].notes[oscillators[k].arg + 1]

\* The value of a frequency of an octave >= 0, in sixteenths of a hundredth of
\* a hertz.
Scaled(f) == f.m * 2 ^ (f.e + 4)

\* C11: the frequency playNote sets for pitch class P at octave O of 0..MaxOctave
\* is the table's frequency of P times 2^(O - 4); at octave 4 it is the table
\* value (A: 440.00 Hz, C: 261.63 Hz); and an octave higher it is twice as much.
C11_FrequencyLaw ==
    \A k \in 1..Len(oscillators) :
        LET n == Sounding(k)
            f == oscillators[k].freq
        IN  (n.note \in DOMAIN NOTE_FREQUENCIES /\ n.octave \in Octaves) =>
              /\ ~f.nan
              /\ Scaled(f) = NOTE_FREQUENCIES[n.note] * 2 ^ n.octave
              /\ n.octave = 4 => Scaled(f) = 16 * NOTE_FREQUENCIES[n.note]
              /\ (n.octave = 4 /\ n.note = "A") => Scaled(f) = 16 * 44000
              /\ (n.octave = 4 /\ n.note = "C") => Scaled(f) = 16 * 26163
              /\ LET g == getFrequencyWithOctave(n.note, n.octave + 1)
                 IN  ~g.nan /\ Scaled(g) = 2 * Scaled(f)

\* The oscillator of an A of octave 5 sounds at 880 Hz.
C11_Witness ==
    \E k \in 1..Len(oscillators) :
        /\ Sounding(k).note = "A" /\ Sounding(k).octave = 5
        /\ Scaled(oscillators[k].freq) = 16 * 88000

\* C12: a note whose name is not one of the 12 pitch classes is resolved to the
\* fallback 440 Hz whatever its octave, its playNote call raises no error, and
\* the pass goes on to the notes after it.
C12_UnknownNameFallsBack ==
    lastPlayCall = "started" =>
      /\ \A i \in 1..(Len(musicalNotes) - unplayed) :
            musicalNotes[i].note \notin DOMAIN NOTE_FREQUENCIES =>
              /\ getFrequencyWithOctave(musicalNotes[i].note, musicalNotes[i].octave)
                    = Fallback
              /\ ~SynthesisThrows(musicalNotes[i])
      /\ ActivePasses = 0 => unplayed = 0

\* An upload settles with an OK response of status 'success'.
UploadSucceeds ==
    \E text \in Texts, notes \in ResponseNotes, msg \in Messages :
        UploadSettles("success", text, notes, msg)

\* C13: a successful upload leaves in musicalNotes exactly the notes of its
\* response, the empty sequence when it has none; and any other step that
\* changes musicalNotes is a file selection or the start of a recording, which
\* empties it.
C13_ReplacedWholesale ==
    /\ [][\A text \in Texts, notes \in NoteSequences, msg \in Messages :
            UploadSettles("success", text, {notes}, msg) => musicalNotes' = notes]_vars
    /\ [][\A text \in Texts, msg \in Messages :
            UploadSettles("success", text, {}, msg) => musicalNotes' = <<>>]_vars
    /\ [][(musicalNotes' # musicalNotes /\ ~UploadSucceeds) =>
            ((SelectFile \/ MicGranted) /\ musicalNotes' = <<>>)]_vars

\* A response has replaced the sequence a pass still in progress was started
\* on by a different one.
C13_Witness ==
    /\ requests = <<>>
    /\ Len(musicalNotes) > 0
    /\ \E k \in 1..Len(timers) :
          timers[k].kind = "note" /\ timers[k].notes[1] # musicalNotes[1]

\* C14: no pass is in progress while a recording is in progress or an upload is
\* being processed.
C14_PlaybackExcludesCapture == isPlaying => (~isRecording /\ ~isProcessing)

\* C15: an uploadAudio call that finds a blob sets isProcessing; whatever the
\* outcome of the request, isProcessing is false again once it has settled,
\* and it does settle; and no more than one request is in flight.
C15_ProcessingBracketsUpload ==
    /\ [][(audioBlob # NoBlob /\ ClickProcessAudio) => isProcessing']_vars
    /\ [][UploadResponse => ~isProcessing']_vars
    /\ isProcessing ~> ~isProcessing
    /\ [](Len(requests) <= 1)

\* An upload has ended in the catch block and the component is ready again.
C15_Witness ==
    /\ ~isProcessing
    /\ requests = <<>>
    /\ error = "Error processing audio"

\* An upload settles in the else branch of the status test or in the catch
\* block.
UploadFails ==
    \/ \E msg \in Messages : UploadSettles("failure", "", {}, msg)
    \/ \E outcome \in {"http_error", "exception"} :
          UploadSettles(outcome, "", {}, NULL)

\* C16: an upload that fails sets error and leaves transcribedText,
\* musicalNotes and currentNoteIndex as they are; after one that succeeds
\* error is null.
C16_OutcomeExclusive ==
    /\ [][UploadFails =>
            (error' # NULL /\
             UNCHANGED << transcribedText, musicalNotes, currentNoteIndex >>)]_vars
    /\ [][UploadSucceeds => error' = NULL]_vars

\* C16 as amended: an upload that fails sets error and leaves transcribedText,
\* musicalNotes and currentNoteIndex as they are; one that succeeds does not
\* write error, which is then null unless a microphone request was refused
\* while the upload was in flight; and a settled upload is one or the other.
C16_OutcomeOrMicrophoneError ==
    /\ [][UploadFails =>
            (error' # NULL /\
             UNCHANGED << transcribedText, musicalNotes, currentNoteIndex >>)]_vars
    /\ [][UploadSucceeds =>
            (UNCHANGED error /\ error \in {NULL, "Error accessing microphone"})]_vars
    /\ [][UploadResponse => (UploadFails # UploadSucceeds)]_vars

\* An upload has succeeded and left its result with no error showing.
C16_Witness ==
    /\ requests = <<>>
    /\ ~isProcessing
    /\ error = NULL
    /\ transcribedText # ""
    /\ Len(musicalNotes) > 0

\* C17: handleFileUpload with a file of a type outside the accepted list, or of
\* more than 10 * 1024 * 1024 bytes, sets error and leaves audioBlob, fileName,
\* transcribedText, musicalNotes and currentNoteIndex as they are, so that
\* audioBlob never holds such a file; with a file of an accepted type and
\* exactly 10 * 1024 * 1024 bytes it stores the file and clears error, message,
\* text, notes and index.
C17_RejectedFileChangesNothing ==
    /\ [][\A file \in Files :
            ((file.type \notin acceptedFileTypes \/ file.size > 10 * 1024 * 1024)
             /\ handleFileUpload(file)) =>
               /\ error' # NULL
               /\ UNCHANGED << audioBlob, fileName, transcribedText, musicalNotes,
                               currentNoteIndex >>]_vars
    /\ [](audioBlob # NoBlob =>
            (audioBlob.type \in acceptedFileTypes /\ audioBlob.size <= 10 * 1024 * 1024))
    /\ [][\A file \in Files :
            (file.type \in acceptedFileTypes /\ file.size = 10 * 1024 * 1024
             /\ handleFileUpload(file)) =>
               /\ audioBlob' = file
               /\ fileName' = file.name
               /\ error' = NULL
               /\ message' = NULL
               /\ transcribedText' = ""
               /\ musicalNotes' = <<>>
               /\ currentNoteIndex' = -1]_vars

\* A file of exactly the maximum size was accepted and processed, and a file
\* one byte larger was then refused.
C17_Witness ==
    /\ error = "File is too large"
    /\ audioBlob # NoBlob
    /\ audioBlob.size = 10 * 1024 * 1024
    /\ Len(musicalNotes) > 0

\* C18: a request carries the recorded blob under the name 'recording.wav' and
\* a selected file under that file's name; and no upload is issued between
\* stopRecording and the onstop callback that stores the new recording, when
\* audioBlob still holds what was captured before it.
C18_LatestCaptureUnderItsName ==
    /\ [](\A k \in 1..Len(requests) :
            /\ requests[k].file = RecordedBlob => requests[k].name = "recording.wav"
            /\ requests[k].file \in Files => requests[k].name = requests[k].file.name)
    /\ [][ClickProcessAudio => ~onstopPending]_vars

====
